---- MODULE Spec2Model ----
(***************************************************************************)
(* A model of the galactic-star-catalogue pipeline scripts:                *)
(*   scripts/fetch_hipparcos_vizier.py   (Fetcher / Normalizer)            *)
(*   scripts/tile_data_py.py             (Tiler)                           *)
(*   scripts/enrich_with_simbad_names.py (Enricher)                        *)
(*   scripts/make_10k_after_hip50.py     (Synthesizer)                     *)
(*                                                                         *)
(* Numbers are fixed-point: an integer v stands for v / Unit (degrees,     *)
(* magnitudes, milliarcseconds).  A JSON scalar is a record [t, v]: t is   *)
(* its kind and v the tuple of its integer payload.  A Python float        *)
(* is such a record with t in {"num", "nan", "inf", "negtiny"}; "negtiny"  *)
(* is a negative number of magnitude far below the resolution (-1e-20),    *)
(* which float arithmetic rounds.  A JSON object is a function from its    *)
(* keys to scalars; a text file is a sequence of tokens.                   *)
(***************************************************************************)
EXTENDS Integers, Sequences, FiniteSets, TLC

VARIABLES
    files,      \* the disk: path -> content (a sequence of tokens)
    pc,         \* position of the running script
    lines,      \* Tiler: the stripped non-empty lines of INFILE
    idx,        \* Tiler: index of the next line of the assignment loop
    tiles,      \* Tiler: the dict `tiles` in insertion order, <<[key, arr], ...>>
    tx,         \* Tiler: module-level tx (<<>> while unbound)
    ty,         \* Tiler: module-level ty (<<>> while unbound)
    written,    \* Tiler: tiles written so far
    vizier,     \* Fetcher: the catalogue the remote VizieR service holds
    df,         \* Fetcher: the fetched table (a sequence of rows)
    df2,        \* Fetcher: the normalized table
    simbad,     \* Enricher: what the remote SIMBAD service holds, per hip
    args,       \* Enricher: the command line (batch, sample_size)
    cache,      \* Enricher: the dict `cache`
    records,    \* Enricher: the list `records`
    need,       \* Enricher: the list `need`
    bi,         \* Enricher: the batch loop's index i
    log,        \* Enricher: the query and error lines printed by this run
    runs,       \* Enricher: completed runs
    base,           \* Synthesizer: the list `base`
    existing_hips,  \* Synthesizer: the set `existing_hips`
    templates,      \* Synthesizer: the list `templates`
    new_records,    \* Synthesizer: the list `new_records`
    created,        \* Synthesizer: `created`
    iter_count,     \* Synthesizer: `iter_count`
    curr_candidate  \* Synthesizer: `curr_candidate`

vars == <<files, pc, lines, idx, tiles, tx, ty, written, vizier, df, df2,
          simbad, args, cache, records, need, bi, log, runs,
          base, existing_hips, templates, new_records, created, iter_count,
          curr_candidate>>

tilerVars == <<lines, idx, tiles, tx, ty, written>>
fetchVars == <<vizier, df, df2>>
enrichVars == <<simbad, args, cache, records, need, bi, log, runs>>
synthVars == <<base, existing_hips, templates, new_records, created, iter_count,
               curr_candidate>>

-----------------------------------------------------------------------------
(* Bounds of the model.                                                    *)

Unit == 2
MaxLines == 3
RaSpan == 400
MaxRows == 2
MaxPlx == 3
MaxHip == 2
MaxRecords == 2
MaxRuns == 2
MaxNew == 2

(* Program constants.                                                      *)

TILE_DEG == 4
INFILE == "output/hipparcos.ndjson"
OUTDIR == "data/tiles"
NDJSON_OUT == "output/hipparcos.ndjson"
CSV_OUT == "output/hipparcos.csv"
SAMPLE_OUT == "data/hipparcos_sample.ndjson"
SAMPLE_SIZE == 5000
RETRIES == 3
E_INPUT == "output/hipparcos.ndjson"
E_OUT == "output/hipparcos.with_names.ndjson"
E_CACHE == "output/names_cache.json"
E_SAMPLE == "data/hipparcos_sample_named.ndjson"
E_SAMPLE_SIZE == 50
\* NUM_NEW is 10_000 in the script; the model runs the generation loop with
\* the number of stars to create scaled down to the bound MaxNew
NUM_NEW == MaxNew
START_AFTER_HIP == 50
INPUT1 == "output/hipparcos.ndjson"
INPUT_FALLBACK == "data/hipparcos_sample.ndjson"
OUT_NEW == "data/hipparcos_10k_after_hip50.ndjson"
OUT_AUG == "output/hipparcos_augmented.ndjson"

-----------------------------------------------------------------------------
(* JSON scalars and Python floats.                                         *)

JNum(n) == [t |-> "num", v |-> <<n>>]
JNumStr(n) == [t |-> "numstr", v |-> <<n>>]
\* the number n + 0.5, for an integer n >= 0
JNumHalf(n) == [t |-> "numhalf", v |-> <<n>>]
JNull == [t |-> "null", v |-> <<>>]
JStr == [t |-> "str", v |-> <<>>]
JNaN == [t |-> "nan", v |-> <<>>]
JInf == [t |-> "inf", v |-> <<>>]
JNegTiny == [t |-> "negtiny", v |-> <<>>]

Deg(d) == JNum(d * Unit)

Ok(x) == [ok |-> TRUE, val |-> x]
Raise == [ok |-> FALSE, val |-> JNull]
OkInt(n) == [ok |-> TRUE, n |-> n]
RaiseInt == [ok |-> FALSE, n |-> 0]

\* float(x) of a value obj.get returned (not None)
PyFloat(j) ==
    CASE j.t = "num" -> Ok(j)
      [] j.t = "numstr" -> Ok(JNum(j.v[1]))
      [] j.t \in {"nan", "inf", "negtiny"} -> Ok(j)
      [] OTHER -> Raise

\* x % m for a float x and a positive integer m (in degrees)
FMod(x, m) ==
    CASE x.t = "num" -> JNum(x.v[1] % (m * Unit))
      [] x.t = "negtiny" -> JNum(m * Unit)
      [] OTHER -> JNaN

\* x + c for a float x and an integer c (in degrees)
FAdd(x, c) ==
    CASE x.t = "num" -> JNum(x.v[1] + c * Unit)
      [] x.t = "negtiny" -> JNum(c * Unit)
      [] OTHER -> x

\* int(math.floor(x / d)) for a float x and a positive integer d (in degrees)
FloorDiv(x, d) ==
    CASE x.t = "num" -> OkInt(x.v[1] \div (d * Unit))
      [] x.t = "negtiny" -> OkInt(-1)
      [] OTHER -> RaiseInt

\* ((ra % 360) + 360) % 360
WrappedRa(ra) == FMod(FAdd(FMod(ra, 360), 360), 360)

\* the same without the wrap of ra
TxNoWrap(ra) == FloorDiv(ra, TILE_DEG)

\* int(math.floor(((ra % 360) + 360) % 360 / TILE_DEG))
TxOf(ra) == FloorDiv(WrappedRa(ra), TILE_DEG)

\* int(math.floor((dec + 90.0) / TILE_DEG))
TyOf(dec) == FloorDiv(FAdd(dec, 90), TILE_DEG)

TileKey(x, y) == ToString(x) \o "_" \o ToString(y)

-----------------------------------------------------------------------------
(* Text files: tokens, lines, json.dumps / json.loads, gzip.               *)

NL == [k |-> "nl"]              \* the newline character
BSN == [k |-> "bsn"]            \* the two characters backslash, n
JUNK == [k |-> "junk"]          \* text that is not JSON

\* a parsed JSON document: an object (isobj, with fields f) or another value
JObj(f) == [isobj |-> TRUE, f |-> f]
JOther == [isobj |-> FALSE, f |-> <<>>]

JsonDumps(doc) == [k |-> "json", doc |-> doc]

JsonLoads(ln) ==
    IF Len(ln) = 1 /\ ln[1].k = "json"
    THEN [ok |-> TRUE, doc |-> ln[1].doc]
    ELSE [ok |-> FALSE, doc |-> JOther]

\* obj.get(key)
DictGet(f, key) == IF key \in DOMAIN f THEN f[key] ELSE JNull

RECURSIVE SplitLines(_)
\* the lines of a text, cut at each newline, the last one with or without it
SplitLines(text) ==
    IF text = <<>> THEN <<>>
    ELSE LET nls == {i \in 1..Len(text) : text[i] = NL}
         IN IF nls = {} THEN <<text>>
            ELSE LET p == CHOOSE i \in nls : \A j \in nls : i <= j
                 IN <<SubSeq(text, 1, p - 1)>> \o SplitLines(SubSeq(text, p + 1, Len(text)))

NonEmpty(ln) == ln # <<>>

\* [ln.strip() for ln in fh if ln.strip()]
ReadLines(text) == SelectSeq(SplitLines(text), NonEmpty)

RECURSIVE JoinNL(_)
\* "\n".join(parts)
JoinNL(parts) ==
    IF parts = <<>> THEN <<>>
    ELSE IF Len(parts) = 1 THEN parts[1]
    ELSE parts[1] \o <<NL>> \o JoinNL(Tail(parts))

\* what gzip.open(path, "wb").write(bytes) leaves in the file
GzipCompress(bytes) == <<[k |-> "gz", data |-> bytes]>>

-----------------------------------------------------------------------------
(* Fetcher / Normalizer: scripts/fetch_hipparcos_vizier.py                 *)

NA == [t |-> "na", v |-> <<>>]         \* NaN / None / pd.NA in a table cell

\* pd.isna(x)
IsNa(x) == x.t \in {"na", "null", "nan"}

\* pd.to_numeric(x, errors='coerce')
ToNumeric(x) == IF x.t \in {"num", "numstr"} THEN JNum(x.v[1]) ELSE NA

\* the float a / (p / Unit), kept as the exact quotient v[1] / v[2]
Quot(a, p) == [t |-> "quot", v |-> <<a * Unit, p>>]

\* the same without the test p > 0
DistPcNoSign(p) == IF ~IsNa(p) THEN Quot(1000, p.v[1]) ELSE NA

\* lambda p: 1000.0/p if pd.notna(p) and p>0 else None
DistPc(p) == IF ~IsNa(p) /\ p.v[1] > 0 THEN Quot(1000, p.v[1]) ELSE NA

\* d > 0 for a distance
QuotPositive(d) == d.v[1] * d.v[2] > 0

\* compute_absmag(row): the float m - 5 * (log10(d) - 1), kept as the term
\* of its two arguments
AbsMag(d, m) ==
    IF ~IsNa(d) /\ ~IsNa(m) /\ QuotPositive(d)
    THEN [t |-> "absmag", v |-> <<m.v[1], d.v[1], d.v[2]>>]
    ELSE NA

\* bv_to_temp(bv): the float 4600 * (1/(0.92 bv + 1.7) + 1/(0.92 bv + 0.62)),
\* kept as the term of its argument
BvToTemp(bv) == IF IsNa(bv) THEN NA ELSE [t |-> "temp", v |-> <<bv.v[1]>>]

\* the columns normalize_and_compute adds to one row of the fetched table
NormalizeRow(r) ==
    LET ra == ToNumeric(r.RAICRS)
        dec == ToNumeric(r.DEICRS)
        vmag == ToNumeric(r.Vmag)
        plx == ToNumeric(r.Plx)
        bv == ToNumeric(r.BV)
        dist_pc == DistPc(plx)
    IN [hip |-> r.HIP, ra |-> ra, dec |-> dec, dist_pc |-> dist_pc,
        vmag |-> vmag, plx |-> plx, bv |-> bv, sp_type |-> r.SpType,
        absmag |-> AbsMag(dist_pc, vmag), temp_k |-> BvToTemp(bv)]

\* df_out.dropna(subset=['ra','dec','vmag'])
Kept(row) == ~IsNa(row.ra) /\ ~IsNa(row.dec) /\ ~IsNa(row.vmag)

NormalizeAndCompute(table) ==
    SelectSeq([i \in 1..Len(table) |-> NormalizeRow(table[i])], Kept)

\* obj[c] = None if pd.isna(val) else val
RowObject(row) == JObj([c \in DOMAIN row |-> IF IsNa(row[c]) THEN JNull ELSE row[c]])

RECURSIVE Concat(_)
Concat(parts) == IF parts = <<>> THEN <<>> ELSE Head(parts) \o Concat(Tail(parts))

\* the text write_ndjson writes: per row, json.dumps(obj) + "\\n"
NdjsonText(table) ==
    Concat([i \in 1..Len(table) |-> <<JsonDumps(RowObject(table[i])), BSN>>])

CsvText(table) == <<[k |-> "csv", rows |-> table]>>

SampleOrders(n) == {p \in [1..n -> 1..n] : \A i, j \in 1..n : p[i] = p[j] => i = j}

WriteFile(fs, path, text) ==
    [p \in DOMAIN fs \cup {path} |-> IF p = path THEN text ELSE fs[p]]

\* fetch_vizier(): the remote table, or sys.exit(1) when the query fails
FetchVizier ==
    /\ pc = "f_start"
    /\ \/ /\ df' = vizier
          /\ pc' = "f_fetched"
       \/ /\ df' = df
          /\ pc' = "f_exit"
    /\ UNCHANGED <<files, vizier, df2, tilerVars, enrichVars, synthVars>>

Normalize ==
    /\ pc = "f_fetched"
    /\ df2' = NormalizeAndCompute(df)
    /\ pc' = "f_normalized"
    /\ UNCHANGED <<files, vizier, df, tilerVars, enrichVars, synthVars>>

\* main(): to_csv, write_ndjson, and write_ndjson of df2.sample(n=min(SAMPLE_SIZE, len))
WriteOutputs ==
    /\ pc = "f_normalized"
    /\ Len(df2) <= SAMPLE_SIZE
    /\ \E perm \in SampleOrders(Len(df2)) :
          LET sample == [i \in 1..Len(df2) |-> df2[perm[i]]]
          IN files' = WriteFile(WriteFile(WriteFile(files, CSV_OUT, CsvText(df2)),
                                          NDJSON_OUT, NdjsonText(df2)),
                                SAMPLE_OUT, NdjsonText(sample))
    /\ pc' = "f_done"
    /\ UNCHANGED <<fetchVars, enrichVars, tilerVars, synthVars>>

FetcherNext == FetchVizier \/ Normalize \/ WriteOutputs

-----------------------------------------------------------------------------
(* Tiler: scripts/tile_data_py.py                                          *)

PathJoin(dir, name) == dir \o "/" \o name

KeyIndex(ts, key) == {i \in 1..Len(ts) : ts[i].key = key}

\* the same, a key already present keeping its list as it is
TilesAppendFirst(ts, key, obj) ==
    IF KeyIndex(ts, key) = {} THEN Append(ts, [key |-> key, arr |-> <<obj>>])
    ELSE ts

\* tiles[key].append(obj) on the insertion-ordered dict
TilesAppend(ts, key, obj) ==
    IF KeyIndex(ts, key) = {}
    THEN Append(ts, [key |-> key, arr |-> <<obj>>])
    ELSE LET p == CHOOSE i \in KeyIndex(ts, key) : TRUE
         IN [ts EXCEPT ![p].arr = Append(@, obj)]

AfterLine(i, n) == IF i >= n THEN "t_assigned" ELSE "t_assign"

TilerStart ==
    /\ pc = "t_start"
    /\ IF INFILE \in DOMAIN files
       THEN /\ lines' = ReadLines(files[INFILE])
            /\ pc' = AfterLine(0, Len(lines'))
       ELSE /\ lines' = lines
            /\ pc' = "t_abort"
    /\ idx' = 1
    /\ tiles' = <<>>
    /\ UNCHANGED <<fetchVars, enrichVars, files, tx, ty, written, synthVars>>

\* one iteration of the assignment loop
TilerAssign ==
    /\ pc = "t_assign"
    /\ idx <= Len(lines)
    /\ LET parsed == JsonLoads(lines[idx])
           f == parsed.doc.f
           ra == DictGet(f, "ra")
           dec == DictGet(f, "dec")
           fra == PyFloat(ra)
           fdec == PyFloat(dec)
           x == TxOf(fra.val)
           y == TyOf(fdec.val)
           next == AfterLine(idx, Len(lines))
       IN CASE ~parsed.ok ->
                 /\ pc' = next
                 /\ UNCHANGED <<tiles, tx, ty>>
            [] parsed.ok /\ ~parsed.doc.isobj ->
                 /\ pc' = "t_abort"
                 /\ UNCHANGED <<tiles, tx, ty>>
            [] parsed.ok /\ parsed.doc.isobj /\ (ra = JNull \/ dec = JNull) ->
                 /\ pc' = next
                 /\ UNCHANGED <<tiles, tx, ty>>
            [] parsed.ok /\ parsed.doc.isobj /\ ra # JNull /\ dec # JNull
                 /\ (~fra.ok \/ ~fdec.ok) ->
                 /\ pc' = next
                 /\ UNCHANGED <<tiles, tx, ty>>
            [] parsed.ok /\ parsed.doc.isobj /\ ra # JNull /\ dec # JNull
                 /\ fra.ok /\ fdec.ok /\ ~x.ok ->
                 /\ pc' = "t_abort"
                 /\ UNCHANGED <<tiles, tx, ty>>
            [] parsed.ok /\ parsed.doc.isobj /\ ra # JNull /\ dec # JNull
                 /\ fra.ok /\ fdec.ok /\ x.ok /\ ~y.ok ->
                 /\ pc' = "t_abort"
                 /\ tx' = <<x.n>>
                 /\ UNCHANGED <<tiles, ty>>
            [] OTHER ->
                 /\ pc' = next
                 /\ tx' = <<x.n>>
                 /\ ty' = <<y.n>>
                 /\ tiles' = TilesAppend(tiles, TileKey(x.n, y.n), parsed.doc)
    /\ idx' = idx + 1
    /\ UNCHANGED <<fetchVars, enrichVars, files, lines, written, synthVars>>

\* the loop is over: "Preparing to write ..."
TilerAssigned ==
    /\ pc = "t_assigned"
    /\ pc' = "t_write"
    /\ written' = 0
    /\ UNCHANGED <<fetchVars, enrichVars, files, lines, idx, tiles, tx, ty, synthVars>>

\* the same joined without the newlines between the records
PlainOfJoined(arr) == Concat([i \in 1..Len(arr) |-> <<JsonDumps(arr[i])>>]) \o <<NL>>

\* "\n".join(json.dumps(x, default=str) for x in arr) + "\n"
PlainOf(arr) == JoinNL([i \in 1..Len(arr) |-> <<JsonDumps(arr[i])>>]) \o <<NL>>

WriteTile(fs, key, arr) ==
    LET plain == PlainOf(arr)
        path_plain == PathJoin(OUTDIR, key \o ".ndjson")
        path_gz == path_plain \o ".gz"
    IN [p \in DOMAIN fs \cup {path_plain, path_gz} |->
           IF p = path_plain THEN plain
           ELSE IF p = path_gz THEN GzipCompress(plain)
           ELSE fs[p]]

\* one iteration of the write loop
TilerWrite ==
    /\ pc = "t_write"
    /\ written < Len(tiles)
    /\ files' = WriteTile(files, tiles[written + 1].key, tiles[written + 1].arr)
    /\ written' = written + 1
    /\ UNCHANGED <<fetchVars, enrichVars, pc, lines, idx, tiles, tx, ty, synthVars>>

TilerDone ==
    /\ pc = "t_write"
    /\ written = Len(tiles)
    /\ pc' = "t_done"
    /\ UNCHANGED <<fetchVars, enrichVars, files, lines, idx, tiles, tx, ty, written, synthVars>>

TilerNext == TilerStart \/ TilerAssign \/ TilerAssigned \/ TilerWrite \/ TilerDone

-----------------------------------------------------------------------------
(* Enricher: scripts/enrich_with_simbad_names.py                           *)

\* an identifier such as "HIP 2" or "HD 2"
Ident(cat, n) == [cat |-> cat, n |-> n]

\* the string MAIN_ID of the object of hip n
NameOf(n) == [t |-> "str", v |-> <<n>>]

\* the empty string, as str(main) of an empty MAIN_ID gives it
EmptyStr == [t |-> "emptystr", v |-> <<>>]

\* the string of an identifier
IdentStr(a) == [t |-> "ident_" \o a.cat, v |-> <<a.n>>]

HipKey(h) == "HIP:" \o ToString(h)

\* {"main_id": None, "ids": []}
NegativeEntry == [main_id |-> JNull, ids |-> <<>>]

\* the row SIMBAD returns for hip h, by the kind of object it holds:
\*   "full"    MAIN_ID and IDS "HD h|HIP h"
\*   "nohip"   MAIN_ID and IDS "HD h" (no HIP identifier among the IDS)
\*   "noname"  no MAIN_ID, IDS "HIP h|HD h"
SimbadRow(h, kind) ==
    CASE kind = "full" ->
           [MAIN_ID |-> NameOf(h), IDS |-> <<Ident("HD", h), Ident("HIP", h)>>]
      [] kind = "nohip" ->
           [MAIN_ID |-> NameOf(h), IDS |-> <<Ident("HD", h)>>]
      [] OTHER ->
           [MAIN_ID |-> JNull, IDS |-> <<Ident("HIP", h), Ident("HD", h)>>]

\* the rows of a successful query for a batch: one per object found
RowsFor(batch) ==
    LET found == SelectSeq(batch, LAMBDA h : simbad[h] # "none")
    IN [i \in 1..Len(found) |-> SimbadRow(found[i], simbad[found[i]])]

\* the key of the first HIP identifier among the ids, <<>> when there is none
FindHipKey(ids) ==
    LET hits == {i \in 1..Len(ids) : ids[i].cat = "HIP"}
    IN IF hits = {} THEN <<>>
       ELSE <<HipKey(ids[CHOOSE i \in hits : \A j \in hits : i <= j].n)>>

DictSet(d, key, val) ==
    [k \in DOMAIN d \cup {key} |-> IF k = key THEN val ELSE d[k]]

RECURSIVE StoreRows(_, _, _)
\* for row in tbl: cache[hip_key] = {...}, the key falling back to the
\* first hip of the batch
StoreRows(c, rows, first) ==
    IF rows = <<>> THEN c
    ELSE LET row == Head(rows)
             found == FindHipKey(row.IDS)
             hip_key == IF found = <<>> THEN HipKey(first) ELSE found[1]
         IN StoreRows(DictSet(c, hip_key, [main_id |-> row.MAIN_ID, ids |-> row.IDS]),
                      Tail(rows), first)

RECURSIVE StoreNegative(_, _)
\* for h in batch: cache[f"HIP:{h}"] = {"main_id": None, "ids": []}
StoreNegative(c, batch) ==
    IF batch = <<>> THEN c
    ELSE StoreNegative(DictSet(c, HipKey(Head(batch)), NegativeEntry), Tail(batch))

RECURSIVE RowsToDict(_, _)
\* the dict query_simbad_for_hips builds from the rows of one result
RowsToDict(out, rows) ==
    IF rows = <<>> THEN out
    ELSE LET row == Head(rows)
             found == FindHipKey(row.IDS)
             hip_key == IF found = <<>> THEN "HIP:UNKNOWN" ELSE found[1]
         IN RowsToDict(DictSet(out, hip_key, [main_id |-> row.MAIN_ID, ids |-> row.IDS]),
                       Tail(rows))

\* query_simbad_for_hips, given the outcome of each of the RETRIES attempts
\* ([raised, none, rows]): the first attempt that does not raise decides;
\* when all raise, the last exception is raised again.  main() never calls it.
QuerySimbadForHips(attempts) ==
    LET good == {i \in 1..RETRIES : ~attempts[i].raised}
    IN IF good = {} THEN [raised |-> TRUE, out |-> <<>>]
       ELSE LET a == attempts[CHOOSE i \in good : \A j \in good : i <= j]
            IN [raised |-> FALSE,
                out |-> IF a.none THEN <<>> ELSE RowsToDict(<<>>, a.rows)]

\* load_cache(path)
LoadCache(fs, path) ==
    IF path \in DOMAIN fs /\ JsonLoads(fs[path]).ok /\ JsonLoads(fs[path]).doc.isobj
    THEN JsonLoads(fs[path]).doc.f
    ELSE <<>>

RECURSIVE SortedSeq(_)
\* sorted(set(hips))
SortedSeq(S) ==
    IF S = {} THEN <<>>
    ELSE LET m == CHOOSE x \in S : \A y \in S : x <= y
         IN <<m>> \o SortedSeq(S \ {m})

HasHip(doc) == DictGet(doc.f, "hip") # JNull

Min(a, b) == IF a <= b THEN a ELSE b

\* the truth value Python gives a string or None
Truthy(x) == x # JNull /\ x # EmptyStr

\* the naming loop taking the first of the ids, whatever its catalogue
NameForFirstId(c, doc) ==
    LET hip == DictGet(doc.f, "hip")
        key == HipKey(hip.v[1])
    IN IF hip = JNull \/ key \notin DOMAIN c THEN JNull
       ELSE IF Truthy(c[key].main_id) THEN c[key].main_id
       ELSE IF c[key].ids = <<>> THEN JNull
       ELSE IdentStr(c[key].ids[1])

\* the name main() gives a record, from the cache
NameFor(c, doc) ==
    LET hip == DictGet(doc.f, "hip")
        key == HipKey(hip.v[1])
    IN IF hip = JNull \/ key \notin DOMAIN c THEN JNull
       ELSE IF Truthy(c[key].main_id) THEN c[key].main_id
       ELSE LET ids == c[key].ids
                alts == {i \in 1..Len(ids) : ids[i].cat # "HIP"}
            IN IF alts = {} THEN JNull
               ELSE IdentStr(ids[CHOOSE i \in alts : \A j \in alts : i <= j])

\* rec["name"] = name
WithName(c, doc) == JObj(DictSet(doc.f, "name", NameFor(c, doc)))

\* "\n".join(out_lines) + "\n"
OutText(out_lines) == JoinNL([i \in 1..Len(out_lines) |-> <<out_lines[i]>>]) \o <<NL>>

\* main() up to the batch loop: load the cache, read and parse the input,
\* list the hips that need a lookup
EnrichStart ==
    /\ pc = "e_start"
    /\ log' = <<>>
    /\ bi' = 0
    /\ IF E_INPUT \notin DOMAIN files
       THEN /\ pc' = "e_return"
            /\ UNCHANGED <<cache, records, need>>
       ELSE LET lns == ReadLines(files[E_INPUT])
                bad == {i \in 1..Len(lns) : ~JsonLoads(lns[i]).ok}
                docs == [i \in 1..Len(lns) |-> JsonLoads(lns[i]).doc]
                hips == {docs[i].f.hip.v[1] : i \in {j \in 1..Len(docs) : HasHip(docs[j])}}
                loaded == LoadCache(files, E_CACHE)
            IN IF bad # {}
               THEN /\ pc' = "e_abort"
                    /\ cache' = loaded
                    /\ records' = SubSeq(docs, 1, (CHOOSE i \in bad : \A j \in bad : i <= j) - 1)
                    /\ need' = <<>>
               ELSE /\ cache' = loaded
                    /\ records' = docs
                    /\ need' = SelectSeq(SortedSeq(hips), LAMBDA h : HipKey(h) \notin DOMAIN loaded)
                    /\ pc' = IF need' = <<>> THEN "e_enrich" ELSE "e_batch"
    /\ UNCHANGED <<files, simbad, args, runs, fetchVars, tilerVars, synthVars>>

\* one iteration of the batch loop: a single Simbad.query_objects call,
\* which raises, returns None (no object found), or returns a table
EnrichBatch ==
    /\ pc = "e_batch"
    /\ bi < Len(need)
    /\ LET batch == SubSeq(need, bi + 1, Min(bi + args.batch, Len(need)))
           asked == [msg |-> "Querying SIMBAD", lo |-> batch[1], hi |-> batch[Len(batch)]]
           failed == [msg |-> "Error querying SIMBAD", lo |-> batch[1], hi |-> batch[Len(batch)]]
           rows == RowsFor(batch)
       IN \/ /\ log' = log \o <<asked, failed>>
             /\ cache' = StoreNegative(cache, batch)
          \/ /\ rows = <<>>
             /\ log' = Append(log, asked)
             /\ cache' = StoreNegative(cache, batch)
          \/ /\ rows # <<>>
             /\ log' = Append(log, asked)
             /\ cache' = StoreRows(cache, rows, batch[1])
    /\ bi' = bi + args.batch
    /\ pc' = IF bi' < Len(need) THEN "e_batch" ELSE "e_save"
    /\ UNCHANGED <<files, simbad, args, records, need, runs, fetchVars, tilerVars, synthVars>>

\* save_cache(cache_path, cache)
EnrichSave ==
    /\ pc = "e_save"
    /\ files' = WriteFile(files, E_CACHE, <<JsonDumps(JObj(cache))>>)
    /\ pc' = "e_enrich"
    /\ UNCHANGED <<enrichVars, fetchVars, tilerVars, synthVars>>

\* name every record and write the output and the sample
EnrichWrite ==
    /\ pc = "e_enrich"
    /\ LET out_lines == [i \in 1..Len(records) |-> JsonDumps(WithName(cache, records[i]))]
           sample_lines == SubSeq(out_lines, 1, Min(args.sample_size, Len(out_lines)))
       IN files' = WriteFile(WriteFile(files, E_OUT, OutText(out_lines)),
                             E_SAMPLE, OutText(sample_lines))
    /\ records' = [i \in 1..Len(records) |-> WithName(cache, records[i])]
    /\ runs' = runs + 1
    /\ pc' = "e_done"
    /\ UNCHANGED <<simbad, args, cache, need, bi, log, fetchVars, tilerVars, synthVars>>

\* the script is run again on the same disk
EnrichAgain ==
    /\ pc = "e_done"
    /\ runs < MaxRuns
    /\ pc' = "e_start"
    /\ UNCHANGED <<files, enrichVars, fetchVars, tilerVars, synthVars>>

EnricherNext == EnrichStart \/ EnrichBatch \/ EnrichSave \/ EnrichWrite \/ EnrichAgain

-----------------------------------------------------------------------------
(* Synthesizer: scripts/make_10k_after_hip50.py                            *)

\* load_ndjson(path): the documents of the lines that parse, the others
\* skipped with a warning
LoadNdjson(fs, path) ==
    IF path \notin DOMAIN fs THEN <<>>
    ELSE LET good == SelectSeq(ReadLines(fs[path]), LAMBDA ln : JsonLoads(ln).ok)
         IN [i \in 1..Len(good) |-> JsonLoads(good[i]).doc]

\* int(hip) of a value r.get("hip") returned (not None)
PyInt(j) ==
    CASE j.t \in {"num", "numstr", "numhalf"} -> OkInt(j.v[1])
      [] OTHER -> RaiseInt

\* existing_by_hip[h] = r, the dict kept as its items in insertion order
PutByHip(d, h, r) ==
    LET at == {i \in 1..Len(d) : d[i].hip = h}
    IN IF at = {} THEN Append(d, [hip |-> h, rec |-> r])
       ELSE [i \in 1..Len(d) |-> IF i \in at THEN [hip |-> h, rec |-> r] ELSE d[i]]

RECURSIVE ExistingByHip(_, _)
\* the loop over base that fills existing_by_hip
ExistingByHip(d, recs) ==
    IF recs = <<>> THEN d
    ELSE LET r == Head(recs)
             hip == DictGet(r.f, "hip")
         IN IF hip = JNull THEN ExistingByHip(d, Tail(recs))
            ELSE ExistingByHip(PutByHip(d, PyInt(hip).n, r), Tail(recs))

Max(a, b) == IF a >= b THEN a ELSE b

\* max(lo, min(hi, x)) of fixed-point numbers
Clamp(lo, hi, x) == Max(lo, Min(hi, x))

\* ballesteros_temp_from_bv(bv), kept as the term of its argument
BallesterosTemp(bv) == IF bv = JNull THEN JNull ELSE [t |-> "temp", v |-> <<bv.v[1]>>]

\* what one call draws from the random generators: the sign of its samples
Draws == {-1, 1}

\* make_new_star_from_template(template, new_hip), its random samples taken
\* at `draw`; the template's fields are numbers or missing, as the
\* Normalizer writes them
MakeNewStarFromTemplate(template, new_hip, draw) ==
    LET tem_ra == DictGet(template.f, "ra")
        tem_dec == DictGet(template.f, "dec")
        tem_dist == DictGet(template.f, "dist_pc")
        tem_vmag == DictGet(template.f, "vmag")
        tem_bv == DictGet(template.f, "bv")
        ra == IF tem_ra = JNull THEN Deg(180 + 90 * draw)
              ELSE FMod(FAdd(tem_ra, 5 * draw), 360)
        dec == IF tem_dec = JNull THEN Deg(40 * draw)
               ELSE JNum(Clamp(-90 * Unit, 90 * Unit, FAdd(tem_dec, 3 * draw).v[1]))
        dist_pc == IF tem_dist # JNull /\ tem_dist.v[1] > 0
                   THEN JNum(Max(Unit, IF draw > 0 THEN tem_dist.v[1] * 10
                                       ELSE tem_dist.v[1] \div 10))
                   ELSE Deg(IF draw > 0 THEN 100 ELSE 1)
        plx == Quot(1000, dist_pc.v[1])
        vmag == IF tem_vmag # JNull
                THEN JNum(Max(-2 * Unit, FAdd(tem_vmag, draw).v[1]))
                ELSE Deg(8 + 2 * draw)
        bv == IF tem_bv # JNull
              THEN JNum(Clamp(-(Unit \div 2), 2 * Unit, FAdd(tem_bv, draw).v[1]))
              ELSE Deg((1 + draw) \div 2)
    IN JObj([hip |-> JNum(new_hip), ra |-> ra, dec |-> dec, dist_pc |-> dist_pc,
             vmag |-> vmag, plx |-> plx, bv |-> bv, sp_type |-> JNull,
             absmag |-> [t |-> "absmag", v |-> <<vmag.v[1], dist_pc.v[1]>>],
             temp_k |-> BallesterosTemp(bv)])

\* the loop taking every candidate, colliding or not
InExistingNever(hip_candidate, hips) == FALSE

\* hip_candidate in existing_hips
InExisting(hip_candidate, hips) == hip_candidate \in hips

\* per record, json.dumps(r) + "\n"
RecordLines(recs) == Concat([i \in 1..Len(recs) |-> <<JsonDumps(recs[i]), NL>>])

\* main() up to the generation loop: pick and load the input, index it by hip
SynthStart ==
    /\ pc = "s_start"
    /\ IF INPUT1 \notin DOMAIN files /\ INPUT_FALLBACK \notin DOMAIN files
       THEN /\ pc' = "s_return"
            /\ UNCHANGED synthVars
       ELSE LET src_path == IF INPUT1 \in DOMAIN files THEN INPUT1 ELSE INPUT_FALLBACK
                loaded == LoadNdjson(files, src_path)
                bad == {i \in 1..Len(loaded) :
                           \/ ~loaded[i].isobj
                           \/ HasHip(loaded[i]) /\ ~PyInt(DictGet(loaded[i].f, "hip")).ok}
                by_hip == ExistingByHip(<<>>, loaded)
            IN /\ base' = loaded
               /\ IF bad # {}
                  THEN /\ pc' = "s_abort"
                       /\ UNCHANGED <<existing_hips, templates, new_records, created,
                                      iter_count, curr_candidate>>
                  ELSE /\ existing_hips' = {by_hip[i].hip : i \in 1..Len(by_hip)}
                       /\ templates' = [i \in 1..Len(by_hip) |-> by_hip[i].rec]
                       /\ new_records' = <<>>
                       /\ created' = 0
                       /\ iter_count' = 0
                       /\ curr_candidate' = START_AFTER_HIP + 1
                       /\ pc' = IF by_hip = <<>> THEN "s_return" ELSE "s_loop"
    /\ UNCHANGED <<files, fetchVars, tilerVars, enrichVars>>

\* one iteration of the generation loop
SynthIterate ==
    /\ pc = "s_loop"
    /\ created < NUM_NEW /\ iter_count < NUM_NEW * 5
    /\ iter_count' = iter_count + 1
    /\ curr_candidate' = curr_candidate + 1
    /\ IF InExisting(curr_candidate, existing_hips)
       THEN UNCHANGED <<new_records, existing_hips, created>>
       ELSE /\ \E i \in 1..Len(templates), draw \in Draws :
                  new_records' = Append(new_records,
                      MakeNewStarFromTemplate(templates[i], curr_candidate, draw))
            /\ existing_hips' = existing_hips \cup {curr_candidate}
            /\ created' = created + 1
    /\ UNCHANGED <<files, pc, base, templates, fetchVars, tilerVars, enrichVars>>

\* after the loop: write the new records, then the augmented catalogue
SynthWrite ==
    /\ pc = "s_loop"
    /\ ~(created < NUM_NEW /\ iter_count < NUM_NEW * 5)
    /\ files' = WriteFile(WriteFile(files, OUT_NEW, RecordLines(new_records)),
                          OUT_AUG, RecordLines(base) \o RecordLines(new_records))
    /\ pc' = "s_done"
    /\ UNCHANGED <<synthVars, fetchVars, tilerVars, enrichVars>>

SynthNext == SynthStart \/ SynthIterate \/ SynthWrite

-----------------------------------------------------------------------------
(* Inputs.                                                                 *)

Star(hip, ra, dec) == JObj([hip |-> JNum(hip), ra |-> ra, dec |-> dec])

FileOf(lns) == JoinNL(lns) \o <<NL>>

RECURSIVE SeqsUpTo(_, _)
\* the sequences over S of length at most n
SeqsUpTo(S, n) ==
    IF n = 0 THEN {<<>>}
    ELSE LET shorter == SeqsUpTo(S, n - 1)
         IN shorter \cup {Append(q, e) : q \in shorter, e \in S}

TilerIdle ==
    /\ lines = <<>>
    /\ idx = 1
    /\ tiles = <<>>
    /\ tx = <<>>
    /\ ty = <<>>
    /\ written = 0

FetcherIdle ==
    /\ vizier = <<>>
    /\ df = <<>>
    /\ df2 = <<>>

EnricherIdle ==
    /\ simbad = <<>>
    /\ args = [batch |-> 1, sample_size |-> E_SAMPLE_SIZE]
    /\ cache = <<>>
    /\ records = <<>>
    /\ need = <<>>
    /\ bi = 0
    /\ log = <<>>
    /\ runs = 0

SynthIdle ==
    /\ base = <<>>
    /\ existing_hips = {}
    /\ templates = <<>>
    /\ new_records = <<>>
    /\ created = 0
    /\ iter_count = 0
    /\ curr_candidate = 0

\* lines an input file of the Tiler may hold
TilerLineSet ==
    { <<JsonDumps(Star(1, Deg(-10), Deg(-90)))>>,
      <<JsonDumps(Star(2, Deg(361), Deg(90)))>>,
      <<JsonDumps(Star(3, JNum(350 * Unit + 1), Deg(-88)))>>,
      <<JsonDumps(Star(4, JNull, Deg(0)))>>,
      <<JsonDumps(JObj([hip |-> JNum(5), ra |-> Deg(8)]))>>,
      <<JsonDumps(Star(6, JStr, Deg(0)))>>,
      <<JsonDumps(Star(7, JNaN, Deg(0)))>>,
      <<JsonDumps(Star(8, JNumStr(9 * Unit), Deg(-89)))>>,
      <<JsonDumps(Star(9, Deg(10), JInf))>>,
      <<JsonDumps(JOther)>>,
      <<JUNK>>,
      <<>> }

StaleTile == PathJoin(OUTDIR, "87_0.ndjson")

Row(hip, ra, dec, vmag, plx, bv) ==
    [HIP |-> JNum(hip), RAICRS |-> ra, DEICRS |-> dec, Vmag |-> vmag,
     Plx |-> plx, BV |-> bv, SpType |-> JStr]

\* rows the remote catalogue may hold
PipeRows ==
    { Row(1, Deg(10), Deg(20), Deg(5), Deg(2), Deg(1)),
      Row(2, Deg(200), Deg(-30), Deg(6), NA, NA),
      Row(3, NA, Deg(0), Deg(7), Deg(1), NA),
      Row(4, Deg(11), Deg(21), Deg(5), Deg(-1), Deg(1)) }

NormRows ==
    { Row(1, ra, Deg(20), vmag, plx, bv) :
        ra \in {NA, Deg(10)},
        vmag \in {NA, JStr, Deg(5)},
        plx \in {NA, JStr} \cup {JNum(v) : v \in (-MaxPlx)..MaxPlx},
        bv \in {NA, Deg(1)} }

-----------------------------------------------------------------------------
(* Specifications.                                                         *)

\* the next script of the pipeline is run once the Fetcher has finished
PipelineNextStage ==
    /\ pc = "f_done"
    /\ pc' = "t_start"
    /\ UNCHANGED <<files, fetchVars, tilerVars, enrichVars, synthVars>>

\* either the Tiler is run on a catalogue file found on disk, or the
\* pipeline is run from the Fetcher on an empty disk
Init ==
    /\ TilerIdle
    /\ EnricherIdle
    /\ SynthIdle
    /\ df = <<>>
    /\ df2 = <<>>
    /\ \/ /\ pc = "t_start"
          /\ vizier = <<>>
          /\ \E lns \in SeqsUpTo(TilerLineSet, MaxLines), stale \in BOOLEAN :
                files = IF stale
                        THEN (INFILE :> FileOf(lns)) @@ (StaleTile :> <<JUNK>>)
                        ELSE (INFILE :> FileOf(lns))
       \/ /\ pc = "f_start"
          /\ vizier \in SeqsUpTo(PipeRows, MaxRows)
          /\ files = <<>>

Next == FetcherNext \/ PipelineNextStage \/ TilerNext

Spec == Init /\ [][Next]_vars

\* the Normalizer on a catalogue of one row
InitNorm ==
    /\ TilerIdle
    /\ EnricherIdle
    /\ SynthIdle
    /\ df = <<>>
    /\ df2 = <<>>
    /\ pc = "f_start"
    /\ vizier \in {<<r>> : r \in NormRows}
    /\ files = <<>>

SpecNorm == InitNorm /\ [][FetcherNext]_vars

\* lines an input file of the Enricher may hold
EnrichLineSet ==
    { <<JsonDumps(Star(h, Deg(10 * h), Deg(0)))>> : h \in 1..MaxHip }
    \cup { <<JsonDumps(JObj([ra |-> Deg(5), dec |-> Deg(5)]))>>, <<JUNK>> }

\* cache files a run may find: none, an unreadable one, one naming hip 1,
\* one holding hip 1 with an empty name
CacheFileSet ==
    { <<>>,
      (E_CACHE :> <<JUNK>>),
      (E_CACHE :> <<JsonDumps(JObj((HipKey(1) :>
            [main_id |-> NameOf(1), ids |-> <<Ident("HIP", 1)>>])))>>),
      (E_CACHE :> <<JsonDumps(JObj((HipKey(1) :>
            [main_id |-> EmptyStr, ids |-> <<Ident("HIP", 1), Ident("HD", 1)>>])))>>) }

\* the hips the records of an input file name
HipsOfLines(lns) ==
    {JsonLoads(ln).doc.f.hip.v[1] :
        ln \in {lns[i] : i \in {j \in 1..Len(lns) :
                    JsonLoads(lns[j]).ok /\ HasHip(JsonLoads(lns[j]).doc)}}}

InitEnrich ==
    /\ TilerIdle
    /\ FetcherIdle
    /\ SynthIdle
    /\ pc = "e_start"
    /\ args \in [batch : {1, 2}, sample_size : {E_SAMPLE_SIZE}]
    /\ cache = <<>>
    /\ records = <<>>
    /\ need = <<>>
    /\ bi = 0
    /\ log = <<>>
    /\ runs = 0
    /\ \E lns \in SeqsUpTo(EnrichLineSet, MaxRecords), cf \in CacheFileSet :
          /\ files = (E_INPUT :> FileOf(lns)) @@ cf
          /\ simbad \in [HipsOfLines(lns) -> {"none", "full", "nohip", "noname"}]

SpecEnrich == InitEnrich /\ [][EnricherNext]_vars

\* the tile index as a function of the coordinates: the Tiler on a catalogue
\* of one record, its ra or its dec drawn from a whole range
RaRange == {JNum(v) : v \in (-RaSpan * Unit)..(2 * RaSpan * Unit)} \cup {JNegTiny}
DecRange == {JNum(v) : v \in (-90 * Unit)..(90 * Unit)}

KeyInputs ==
    {Star(1, ra, dec) : ra \in RaRange, dec \in {Deg(-90), Deg(0), Deg(90)}}
    \cup {Star(1, ra, dec) : ra \in {Deg(-10), Deg(361)}, dec \in DecRange}

InitKey ==
    /\ \E s \in KeyInputs : files = (INFILE :> FileOf(<<<<JsonDumps(s)>>>>))
    /\ pc = "t_start"
    /\ TilerIdle
    /\ FetcherIdle
    /\ EnricherIdle
    /\ SynthIdle

SpecKey == InitKey /\ [][TilerNext]_vars

\* lines an input file of the Synthesizer may hold
SynthLineSet ==
    { <<JsonDumps(Star(START_AFTER_HIP, Deg(10), Deg(0)))>>,
      <<JsonDumps(Star(START_AFTER_HIP + 1, JNull, Deg(89)))>>,
      <<JsonDumps(JObj([hip |-> JNumHalf(START_AFTER_HIP + 2), ra |-> Deg(355),
                        dec |-> JNull, dist_pc |-> Deg(5), vmag |-> Deg(-2),
                        plx |-> Deg(200), bv |-> Deg(2)]))>>,
      <<JsonDumps(JObj([ra |-> Deg(5), dec |-> Deg(5)]))>>,
      <<JsonDumps(JObj([hip |-> JStr, ra |-> Deg(5), dec |-> Deg(5)]))>>,
      <<JsonDumps(JOther)>>,
      <<JUNK>> }

\* a catalogue holding every hip of START_AFTER_HIP + 1 .. START_AFTER_HIP + n
DenseLines(n) == [i \in 1..n |-> <<JsonDumps(Star(START_AFTER_HIP + i, Deg(10), Deg(0)))>>]

\* catalogues the Synthesizer may find: short ones of any lines, and two that
\* fill the range of candidates the loop may try, wholly or but for the last
SynthCatalogues ==
    SeqsUpTo(SynthLineSet, MaxRecords)
    \cup {DenseLines(NUM_NEW * 5), DenseLines(NUM_NEW * 5 - 1)}

InitSynth ==
    /\ TilerIdle
    /\ FetcherIdle
    /\ EnricherIdle
    /\ SynthIdle
    /\ pc = "s_start"
    /\ \/ files = <<>>
       \/ \E lns \in SynthCatalogues :
             \/ files = (INPUT1 :> FileOf(lns))
             \/ files = (INPUT_FALLBACK :> FileOf(lns))
             \/ files = (INPUT1 :> FileOf(lns)) @@ (INPUT_FALLBACK :> <<JUNK>>)

SpecSynth == InitSynth /\ [][SynthNext]_vars

-----------------------------------------------------------------------------
(* Vocabulary of the properties.                                           *)

\* the bytes a gzip file decodes to
GzipDecompress(content) == content[1].data

\* the coordinates of the record the assignment loop handled last
LastDoc == JsonLoads(lines[idx - 1]).doc
LastRa == PyFloat(DictGet(LastDoc.f, "ra")).val
LastDec == PyFloat(DictGet(LastDoc.f, "dec")).val

\* the JSON documents of the input lines, in input order
InputDocs ==
    LET good == SelectSeq(lines, LAMBDA ln : JsonLoads(ln).ok)
    IN [i \in 1..Len(good) |-> JsonLoads(good[i]).doc]

\* a record with numeric ra and dec
HasCoords(doc) ==
    /\ doc.isobj
    /\ DictGet(doc.f, "ra") # JNull /\ PyFloat(DictGet(doc.f, "ra")).ok
    /\ DictGet(doc.f, "dec") # JNull /\ PyFloat(DictGet(doc.f, "dec")).ok

ValidDocs == SelectSeq(InputDocs, HasCoords)

\* the key "<tx>_<ty>" of a record's own coordinates
OwnKey(doc) ==
    TileKey(TxOf(PyFloat(DictGet(doc.f, "ra")).val).n,
            TyOf(PyFloat(DictGet(doc.f, "dec")).val).n)

Count(q, e) == Cardinality({i \in 1..Len(q) : q[i] = e})

RECURSIVE SumLen(_)
SumLen(ts) == IF ts = <<>> THEN 0 ELSE Len(Head(ts).arr) + SumLen(Tail(ts))

LoopOver == pc \in {"t_assigned", "t_write", "t_done"}

\* the documents of a text read line by line, one json.loads per line
DocsOfText(text) ==
    LET lns == ReadLines(text)
    IN [i \in 1..Len(lns) |-> JsonLoads(lns[i])]

-----------------------------------------------------------------------------
(* C1.  For every right ascension the Tiler accepts, negative values and   *)
(* values of 360 and more included, the wrapped value                      *)
(* ((ra mod 360) + 360) mod 360 lies in [0, 360) and tx is an integer with *)
(* 0 <= tx < 360 / TILE_DEG; ra = -10 gives tx = 87, ra = 361 gives 0.     *)
C1_TxInRange ==
    tx # <<>> =>
        /\ WrappedRa(LastRa).t = "num"
        /\ WrappedRa(LastRa).v[1] >= 0
        /\ WrappedRa(LastRa).v[1] < 360 * Unit
        /\ tx[1] >= 0
        /\ tx[1] < 360 \div TILE_DEG
        /\ (LastRa = Deg(-10) => tx[1] = 87)
        /\ (LastRa = Deg(361) => tx[1] = 0)

C1_Witness == pc = "t_done" /\ tx = <<87>> /\ LastRa = Deg(-10)

(* C2.  For every declination in the closed range [-90, 90], ty is an      *)
(* integer with 0 <= ty < 180 / TILE_DEG, at both endpoints too.           *)
C2_TyInRange ==
    (ty # <<>> /\ LastDec.t = "num"
        /\ LastDec.v[1] >= -90 * Unit /\ LastDec.v[1] <= 90 * Unit)
    => (ty[1] >= 0 /\ ty[1] < 180 \div TILE_DEG)

(* C3.  After the assignment loop every input record with numeric ra and   *)
(* dec is in exactly one tile, the one keyed by its own coordinates, as    *)
(* often as it occurs in the input; no other record is in any tile; no     *)
(* key names two tiles; the tiles together hold as many records as the     *)
(* input has valid ones.                                                   *)
C3_TilingIsPartition ==
    LoopOver =>
        /\ \A i, j \in 1..Len(tiles) : tiles[i].key = tiles[j].key => i = j
        /\ \A i \in 1..Len(tiles) : \A k \in 1..Len(tiles[i].arr) :
              LET d == tiles[i].arr[k]
              IN /\ HasCoords(d)
                 /\ OwnKey(d) = tiles[i].key
                 /\ Count(tiles[i].arr, d) = Count(ValidDocs, d)
        /\ \A n \in 1..Len(ValidDocs) :
              \E i \in 1..Len(tiles) :
                 /\ tiles[i].key = OwnKey(ValidDocs[n])
                 /\ Count(tiles[i].arr, ValidDocs[n]) = Count(ValidDocs, ValidDocs[n])
        /\ SumLen(tiles) = Len(ValidDocs)

C3_Witness ==
    /\ pc = "t_done"
    /\ \E i \in 1..Len(tiles) : Len(tiles[i].arr) = 2
    /\ Len(InputDocs) > Len(ValidDocs)

(* C4.  When a Tiler run completes, for every tile both "<key>.ndjson" and *)
(* "<key>.ndjson.gz" exist, the gzip file decodes to the content of the    *)
(* plain file, and that content is, one per line and in input order, the   *)
(* records of the input whose key it is.                                   *)
C4_TileFiles ==
    pc = "t_done" =>
        /\ Len(tiles) > 0 <=> Len(ValidDocs) > 0
        /\ \A i \in 1..Len(tiles) :
              LET key == tiles[i].key
                  plain == PathJoin(OUTDIR, key \o ".ndjson")
                  gz == PathJoin(OUTDIR, key \o ".ndjson.gz")
                  expected == SelectSeq(ValidDocs, LAMBDA d : OwnKey(d) = key)
              IN /\ plain \in DOMAIN files
                 /\ gz \in DOMAIN files
                 /\ GzipDecompress(files[gz]) = files[plain]
                 /\ files[plain][Len(files[plain])] = NL
                 /\ DocsOfText(files[plain]) =
                       [n \in 1..Len(expected) |-> [ok |-> TRUE, doc |-> expected[n]]]

C4_Witness ==
    /\ pc = "t_done"
    /\ StaleTile \in DOMAIN files
    /\ Len(ReadLines(files[StaleTile])) = 2
    /\ Len(tiles) = 2

(* C5.  No value of ra or dec in an input record makes the Tiler run       *)
(* abort: a record whose ra or dec is missing, null or not a number is     *)
(* left out of the tiles and the run goes on with the next line.           *)
C5_RecordNeverAborts ==
    ~(pc = "t_abort" /\ idx > 1 /\ JsonLoads(lines[idx - 1]).ok /\ LastDoc.isobj)

(* C6.  The file write_ndjson wrote holds one JSON object per line: read   *)
(* line by line it gives back the records the Normalizer kept, in order,   *)
(* and the Tiler run on the file of n >= 2 records with coordinates places *)
(* all n in tiles.                                                         *)
C6_HandOff ==
    /\ pc = "f_done" =>
          DocsOfText(files[NDJSON_OUT]) =
             [i \in 1..Len(df2) |-> [ok |-> TRUE, doc |-> RowObject(df2[i])]]
    /\ (Len(df2) >= 2 /\ LoopOver) => SumLen(tiles) = Len(df2)

(* C7.  In every record the Normalizer emits, dist_pc is non-null exactly  *)
(* when plx is present and strictly positive, and then dist_pc * plx =     *)
(* 1000; absmag is non-null only if dist_pc and vmag are; temp_k is        *)
(* non-null only if bv is, whatever plx is.                                *)
DerivedFieldsOk(f, null) ==
    /\ f.dist_pc # null <=> (f.plx # null /\ f.plx.v[1] > 0)
    /\ f.dist_pc # null =>
          /\ f.dist_pc.t = "quot"
          /\ f.dist_pc.v[1] * f.plx.v[1] = 1000 * Unit * f.dist_pc.v[2]
    /\ f.absmag # null => (f.dist_pc # null /\ f.vmag # null)
    /\ f.temp_k # null => (f.bv # null /\ f.temp_k = BvToTemp(f.bv))

C7_DerivedFields ==
    /\ pc \in {"f_normalized", "f_done"} =>
          \A i \in 1..Len(df2) : DerivedFieldsOk(df2[i], NA)
    /\ pc = "f_done" =>
          \A i \in 1..Len(files[NDJSON_OUT]) :
             files[NDJSON_OUT][i].k = "json" =>
                DerivedFieldsOk(files[NDJSON_OUT][i].doc.f, JNull)

C7_Witness ==
    /\ pc = "f_done"
    /\ \E i \in 1..Len(files[NDJSON_OUT]) :
          /\ files[NDJSON_OUT][i].k = "json"
          /\ LET f == files[NDJSON_OUT][i].doc.f
             IN /\ f.plx # JNull /\ f.plx.v[1] <= 0
                /\ f.dist_pc = JNull /\ f.absmag = JNull /\ f.temp_k # JNull

\* the hips of a batch the run asked SIMBAD about
BatchHips(entry) == {need[i] : i \in {j \in 1..Len(need) : need[j] >= entry.lo /\ need[j] <= entry.hi}}

\* the hips of the input records
InputHips == {d.f.hip.v[1] : d \in {e \in {records[i] : i \in 1..Len(records)} : HasHip(e)}}

(* C8.  When the remote lookup of a batch fails, the batch is tried        *)
(* RETRIES times, and when every attempt failed the run aborts: no cache   *)
(* entry is written for the batch's hips and the run writes no output.     *)
C8_FailedBatchAborts ==
    \A i \in 1..Len(log) :
        log[i].msg = "Error querying SIMBAD" =>
            /\ Cardinality({j \in 1..Len(log) :
                   log[j].msg = "Error querying SIMBAD" /\ log[j].lo = log[i].lo}) = RETRIES
            /\ pc = "e_abort"
            /\ \A h \in BatchHips(log[i]) : HipKey(h) \notin DOMAIN cache

(* C9.  After a completed Enricher run the persisted cache has an entry    *)
(* "HIP:<n>" for every hip n of the input, the hips SIMBAD returned no row *)
(* for included; a later run on the same input needs no lookup and issues  *)
(* no query.                                                               *)
C9_CacheComplete ==
    /\ pc = "e_done" =>
          \A h \in InputHips : HipKey(h) \in DOMAIN LoadCache(files, E_CACHE)
    /\ (runs >= 1 /\ pc \in {"e_batch", "e_save", "e_enrich"}) =>
          (need = <<>> /\ log = <<>>)

(* C10.  An input line that is not valid JSON never aborts a stage: it is  *)
(* skipped, the remaining lines are processed and the output is written    *)
(* (here the Enricher, whose output then holds a record per valid line,    *)
(* the lines load_ndjson of the Synthesizer keeps).                        *)
C10_MalformedLineSkipped ==
    /\ pc # "e_abort"
    /\ pc = "e_done" =>
          Len(ReadLines(files[E_OUT])) = Len(LoadNdjson(files, E_INPUT))

\* the name the naming rule gives a record, from the cache entries
RuleName(doc) ==
    LET hip == DictGet(doc.f, "hip")
    IN IF hip = JNull THEN JNull
       ELSE IF HipKey(hip.v[1]) \notin DOMAIN cache THEN JNull
       ELSE LET entry == cache[HipKey(hip.v[1])]
                aliases == SelectSeq(entry.ids, LAMBDA a : a.cat # "HIP")
            IN IF entry.main_id \notin {JNull, EmptyStr} THEN entry.main_id
               ELSE IF aliases # <<>> THEN IdentStr(Head(aliases))
               ELSE JNull

(* C11.  The output of a completed Enricher run holds every input record,  *)
(* in input order, each with a name field and its other fields unchanged;  *)
(* the name of a record with hip n is the cached main_id of "HIP:<n>" when *)
(* that is non-empty, otherwise the first cached alias that is not a HIP   *)
(* identifier, otherwise null; a record with no hip or no cache entry has  *)
(* name null.                                                              *)
C11_NamingRule ==
    pc = "e_done" =>
        LET inp == LoadNdjson(files, E_INPUT)
            out == DocsOfText(files[E_OUT])
        IN /\ Len(out) = Len(inp)
           /\ \A i \in 1..Len(inp) :
                 /\ out[i].ok
                 /\ DOMAIN out[i].doc.f = DOMAIN inp[i].f \cup {"name"}
                 /\ \A k \in DOMAIN inp[i].f \ {"name"} : out[i].doc.f[k] = inp[i].f[k]
                 /\ out[i].doc.f.name = RuleName(inp[i])

C11_Witness ==
    /\ pc = "e_done"
    /\ Len(records) = 2
    /\ ~HasHip(records[1]) /\ records[1].f.name = JNull
    /\ HasHip(records[2])
    /\ cache[HipKey(records[2].f.hip.v[1])].main_id = EmptyStr
    /\ DocsOfText(files[E_OUT])[2].doc.f.name = IdentStr(Ident("HD", 1))

\* the hips of the records of a list, record by record (null when absent)
HipsOf(recs) == [i \in 1..Len(recs) |-> DictGet(recs[i].f, "hip")]

(* C12.  Every record the Synthesizer creates has an integer hip strictly  *)
(* greater than START_AFTER_HIP that is the hip of no input record and of  *)
(* no other created record; the generation loop tries at most 5 * NUM_NEW  *)
(* candidates and creates at most NUM_NEW records; the augmented catalogue *)
(* is the input records followed by the created ones, and two of its       *)
(* records share a hip only if both are input records.                     *)
C12_FreshIdentifiers ==
    /\ pc \in {"s_loop", "s_done"} =>
          /\ created = Len(new_records)
          /\ created <= NUM_NEW
          /\ iter_count <= 5 * NUM_NEW
          /\ curr_candidate = START_AFTER_HIP + 1 + iter_count
          /\ \A i \in 1..Len(new_records) :
                LET h == HipsOf(new_records)[i]
                IN /\ h.t = "num"
                   /\ h.v[1] > START_AFTER_HIP
                   /\ \A j \in 1..Len(base) : HipsOf(base)[j] # h
                   /\ \A j \in 1..Len(new_records) :
                         HipsOf(new_records)[j] = h => j = i
    /\ pc = "s_done" =>
          LET aug == DocsOfText(files[OUT_AUG])
              hips == [i \in 1..Len(aug) |-> DictGet(aug[i].doc.f, "hip")]
          IN /\ aug = [i \in 1..Len(base) + Len(new_records) |->
                         [ok |-> TRUE,
                          doc |-> IF i <= Len(base) THEN base[i]
                                  ELSE new_records[i - Len(base)]]]
             /\ \A i, j \in 1..Len(aug) :
                   (i < j /\ hips[i] # JNull /\ hips[i] = hips[j]) => j <= Len(base)

C12_Witness ==
    /\ pc = "s_done"
    /\ created = NUM_NEW
    /\ iter_count > created
    /\ \E j \in 1..Len(base) : HipsOf(base)[j] = JNumHalf(START_AFTER_HIP + 2)
    /\ Len(DocsOfText(files[OUT_AUG])) = Len(base) + NUM_NEW

====
